---- MODULE Spec2Model ----
(***************************************************************************)
(* matscan: the ingestion core.                                            *)
(*                                                                         *)
(*   src/src/processing/minecraft.rs   process, create_bulk_update         *)
(*   src/src/modes/rescan.rs           get_ranges                          *)
(*                                                                         *)
(* Spec        concurrent workers calling create_bulk_update on the shared *)
(*             SharedData (bad_ips, ips_with_same_hash) behind one mutex,  *)
(*             and the spawned add_to_bad_ips tasks.                       *)
(* SpecScan    one worker processing the records one after the other.      *)
(* SpecRescan  one call of get_ranges against a stored collection.         *)
(* SpecLock    one worker and one call of get_ranges on the same           *)
(*             SharedData.                                                 *)
(*                                                                         *)
(* Option<T> values are sequences of length at most one: <<>> is None and  *)
(* <<x>> is Some(x).  A HashMap is a function whose DOMAIN is its key set. *)
(***************************************************************************)
EXTENDS Integers, Sequences, FiniteSets, TLC

(***************************************************************************)
(* Bounds of the model.                                                    *)
(***************************************************************************)
\* Ports other than the default one are 1..MaxPort.
MaxPort == 102

\* The concurrent workers start at most MaxCalls calls of create_bulk_update.
MaxCalls == 4

\* The stored collections hold at most MaxDocs documents.
MaxDocs == 2
\* The largest number of records in the collection get_addrs_and_protocol_versions
\* reads.
MaxRecords == 3

\* The worker tasks that run process/create_bulk_update concurrently.
Workers == {"w1", "w2"}

\* The addresses probed (Ipv4Addr, as its four octets).
Addr1 == <<10, 0, 0, 1>>
Addr2 == <<10, 0, 0, 2>>
Addrs == {Addr1}


(***************************************************************************)
(* Program constants.                                                      *)
(***************************************************************************)
\* minecraft.rs:287, rescan.rs:105
DefaultPort == 25565
\* minecraft.rs:321  `if *count >= 100`
PromoteCount == 100

None == <<>>
Some(x) == <<x>>
IsSome(o) == Len(o) = 1
Unwrap(o) == o[1]

Free == "free"

VARIABLES
    \* SharedData behind Arc<Mutex<..>>
    bad_ips,              \* HashSet<Ipv4Addr>
    ips_with_same_hash,   \* HashMap<Ipv4Addr, (CachedIpHash, HashSet<u16>)>
    lock,                 \* holder of database.shared, or Free
    \* one frame of create_bulk_update per worker
    pc,                   \* position of the worker in create_bulk_update
    target,               \* Option<SocketAddrV4>: [ip, port]
    listed,               \* bad_ips.contains(target.ip()) as line 287 read it
    mongo_update,         \* Option<Document>
    this_server_hash,     \* Option<u64>, the local of lines 315/335
    is_bad_ip,            \* the local flag of line 308
    ret,                  \* Option<what the last call returned>
    \* tokio tasks spawned at line 350 and not yet run, per address
    pending,
    \* history: number of spawns of add_to_bad_ips per address
    spawns,
    \* number of calls of create_bulk_update started so far
    calls,
    \* the servers collection of the store, a set of BSON documents
    store,
    \* SystemTime::now(), in seconds
    now,
    \* one frame of get_ranges
    rpc,                  \* position in get_ranges
    args,                 \* its arguments
    filter,               \* the filter document, lines 34-52
    local_bad_ips,        \* the local `bad_ips`, line 56
    pipeline,             \* the aggregation pipeline, lines 58-74
    cursor,               \* what the cursor has still to yield
    ip_str,               \* Option<&str> of the document in hand, line 84
    ranges,               \* Vec<ScanRange>
    rret,                 \* Option<what get_ranges returned>
    \* history: the collection as the aggregation saw it
    queried,
    \* history: the filters of the delete_many calls issued
    deleted,
    \* clean_response_data on its own
    response,             \* Option<serde_json::Value>: its argument
    cleaned,              \* Option<what it returned>, an Option<Document>
    \* one frame of process per worker
    data,                 \* Option<[bytes, target]>: the arguments of process
    out,                  \* Option<what process returned>, an Option<BulkUpdate>
    \* one frame of get_addrs_and_protocol_versions
    fpc,                  \* position in the function
    fcursor,              \* what the cursor has still to yield
    results,              \* Vec<(SocketAddrV4, i32)>
    counts,               \* the locals count, ip_missing and port_missing
    fret                  \* Option<what the function returned>

wvars == <<pc, target, listed, mongo_update, this_server_hash, is_bad_ip, ret>>
svars == <<bad_ips, ips_with_same_hash, lock>>
rvars == <<store, now, rpc, args, filter, local_bad_ips, pipeline, cursor,
           ip_str, ranges, rret, queried, deleted>>
cvars == <<response, cleaned>>
pvars == <<data, out>>
fvars == <<fpc, fcursor, results, counts, fret>>
xvars == <<cvars, pvars, fvars>>
vars == <<bad_ips, ips_with_same_hash, lock, pc, target, listed, mongo_update,
          this_server_hash, is_bad_ip, ret, pending, spawns, calls,
          store, now, rpc, args, filter, local_bad_ips, pipeline, cursor,
          ip_str, ranges, rret, queried, deleted,
          response, cleaned, data, out, fpc, fcursor, results, counts, fret>>

(***************************************************************************)
(* BSON documents.  A value carries its BSON type; a document is a         *)
(* function from its keys to values.                                       *)
(***************************************************************************)
Int32(v) == <<"int32", v>>
Str(v) == <<"string", v>>
Date(t) == <<"date", t>>

\* Document::get_str: the value of `key` when it is a string.
get_str(doc, key) ==
    IF key \in DOMAIN doc /\ doc[key][1] = "string" THEN Some(doc[key][2]) ELSE None

\* database::get_u32: the value of `key` when it is a number that fits u32.
get_u32(doc, key) ==
    IF key \in DOMAIN doc /\ doc[key][1] = "int32" /\ doc[key][2] >= 0
    THEN Some(doc[key][2])
    ELSE None

\* Ipv4Addr::to_string and str::parse::<Ipv4Addr>, on the strings of the model.
KnownAddrs == {Addr1, Addr2}
IpToString(a) ==
    CASE a = Addr1 -> "10.0.0.1"
      [] a = Addr2 -> "10.0.0.2"
ParseIpv4(str) ==
    IF \E a \in KnownAddrs : IpToString(a) = str
    THEN Some(CHOOSE a \in KnownAddrs : IpToString(a) = str)
    ELSE None

(***************************************************************************)
(* Documents.                                                              *)
(***************************************************************************)
\* The field assignments clean_response_data emits, as far as
\* create_bulk_update reads them.
CleanedDoc(d, o) ==
    [description |-> d, version |-> "1.20.4", protocol |-> 765,
     max_players |-> 20, online_players |-> o]
\* Two records with one fingerprint (they differ in online_players alone) and
\* one record with another fingerprint.
CleanedDocs ==
    {CleanedDoc("A Minecraft Server", 0),
     CleanedDoc("A Minecraft Server", 3),
     CleanedDoc("Another Server", 0)}

\* doc! { "$set": cleaned_data }  (process, line 51).  create_bulk_update is
\* pub: a caller may also hand it a document without "$set".
MongoUpdates == {[set |-> Some(c)] : c \in CleanedDocs} \cup {[set |-> None]}

\* determine_hash: Err when "$set" is missing, else the hash of
\* (description, version_name, version_protocol, max_players).  DefaultHasher
\* is modelled as collision-free: the hash value is the hashed tuple.
determine_hash(update) ==
    IF ~IsSome(update.set)
    THEN [ok |-> FALSE, hash |-> <<>>]
    ELSE LET s == Unwrap(update.set)
         IN  [ok |-> TRUE,
              hash |-> <<s.description, s.version, s.protocol, s.max_players>>]

(***************************************************************************)
(* The probes the scanner hands to the workers.                            *)
(***************************************************************************)
\* previously_checked_ports of an address ({} when it has no cache entry).
CheckedPorts(ip) ==
    IF ip \in DOMAIN ips_with_same_hash THEN ips_with_same_hash[ip].ports ELSE {}

Smallest(S) == CHOOSE p \in S : \A q \in S : p <= q
Largest(S) == CHOOSE p \in S : \A q \in S : q <= p

\* The ports of `ip` that workers other than `w` hold in a running call.
InFlight(w, ip) ==
    {Unwrap(target[v]).port : v \in {x \in Workers \ {w} :
        pc[x] # "idle" /\ Unwrap(target[x]).ip = ip}}

\* The ports a new probe of `ip` by worker `w` may carry.  create_bulk_update
\* uses a port only in `!= 25565` and in membership of
\* previously_checked_ports, so ports other than the default one are
\* interchangeable and the model numbers them in the order they are first
\* probed: a new probe carries the default port, the largest port already
\* counted (a repeat), a port another worker is processing right now (the
\* same port twice at once), or the smallest port neither counted nor being
\* processed.
ProbePorts(w, ip) ==
    LET busy == InFlight(w, ip) \ {DefaultPort}
        fresh == (1..MaxPort) \ (CheckedPorts(ip) \cup busy)
        first == IF fresh = {} THEN {} ELSE {Smallest(fresh)}
        old == CheckedPorts(ip) \ {DefaultPort}
        again == IF old = {} THEN {} ELSE {Largest(old)}
    IN  {DefaultPort} \cup first \cup busy \cup again

(***************************************************************************)
(* create_bulk_update (minecraft.rs:282-365), one action per step between  *)
(* two points where another task can run.                                  *)
(***************************************************************************)
ErrBadIp == [ok |-> FALSE, err |-> <<"bad ip">>, bulk |-> None]
ErrBadIpTarget(t) == [ok |-> FALSE, err |-> <<"bad ip", t>>, bulk |-> None]
ErrNoSet == [ok |-> FALSE, err |-> <<"$set">>, bulk |-> None]

\* Mutant of line 363: the options do not ask for an upsert.
BulkUpdateNoUpsert(t, update) ==
    [ok |-> TRUE, err |-> <<>>,
     bulk |-> Some([query |-> [ip |-> Str(IpToString(t.ip)), port |-> Int32(t.port)],
                    update |-> update,
                    upsert |-> FALSE])]

\* Ok(BulkUpdate { query, update, options }), lines 357-364.  The query holds
\* the value each key is to be `$eq` to; a port converts to an Int32.
BulkUpdate(t, update) ==
    [ok |-> TRUE, err |-> <<>>,
     bulk |-> Some([query |-> [ip |-> Str(IpToString(t.ip)), port |-> Int32(t.port)],
                    update |-> update,
                    upsert |-> TRUE])]

\* process/its caller starts create_bulk_update(database, &target, mongo_update).
StartCall(w) ==
    /\ pc[w] = "idle"
    /\ \E ip \in Addrs, u \in MongoUpdates :
         \E port \in ProbePorts(w, ip) :
            /\ target' = [target EXCEPT ![w] = Some([ip |-> ip, port |-> port])]
            /\ mongo_update' = [mongo_update EXCEPT ![w] = Some(u)]
    /\ this_server_hash' = [this_server_hash EXCEPT ![w] = None]
    /\ is_bad_ip' = [is_bad_ip EXCEPT ![w] = FALSE]
    /\ ret' = [ret EXCEPT ![w] = None]
    /\ pc' = [pc EXCEPT ![w] = "L287"]
    /\ UNCHANGED <<svars, listed, pending, spawns>>

\* A call by one of the concurrent workers; the model stops starting calls
\* after MaxCalls of them.
Call(w) ==
    /\ calls < MaxCalls
    /\ StartCall(w)
    /\ calls' = calls + 1
    /\ UNCHANGED <<rvars, xvars>>

\* A call of the sequential scan, which is bounded by MaxPort alone.
ScanCall(w) ==
    /\ StartCall(w)
    /\ UNCHANGED <<calls, xvars, rvars>>

\* Mutant of line 287: `==` for `!=`.
IsBlockedOnDefaultPort(t, bad) == t.ip \in bad /\ t.port = DefaultPort

\* line 287: the condition of the `if`.
IsBlocked(t, bad) == t.ip \in bad /\ t.port # DefaultPort

\* lines 287-290: database.shared.lock() is taken, the condition is evaluated
\* under the guard and the guard, a temporary of the condition, is dropped
\* before either branch runs: one step that needs the lock free and leaves it
\* free.  A blocked target bails, which ends the call.
CheckBlocklist(w) ==
    /\ pc[w] = "L287"
    /\ lock = Free
    /\ lock' = Free
    /\ IF IsBlocked(Unwrap(target[w]), bad_ips)
       THEN /\ ret' = [ret EXCEPT ![w] = Some(ErrBadIp)]
            /\ pc' = [pc EXCEPT ![w] = "idle"]
            /\ target' = [target EXCEPT ![w] = None]
            /\ mongo_update' = [mongo_update EXCEPT ![w] = None]
            /\ UNCHANGED listed
       ELSE /\ pc' = [pc EXCEPT ![w] = "L310"]
            /\ listed' = [listed EXCEPT ![w] = Unwrap(target[w]).ip \in bad_ips]
            /\ UNCHANGED <<ret, target, mongo_update>>
    /\ UNCHANGED <<bad_ips, ips_with_same_hash,
                   this_server_hash, is_bad_ip, pending, spawns, calls, xvars, rvars>>

\* Mutant of line 310: the section is entered without waiting for the lock.
LockForCacheNoWait(w) ==
    /\ pc[w] = "L310"
    /\ lock' = w
    /\ pc' = [pc EXCEPT ![w] = "L310_locked"]
    /\ UNCHANGED <<bad_ips, ips_with_same_hash, target, listed, mongo_update,
                   this_server_hash, is_bad_ip, ret, pending, spawns, calls, xvars, rvars>>

\* line 310: let mut shared = database.shared.lock();
LockForCache(w) ==
    /\ pc[w] = "L310"
    /\ lock = Free
    /\ lock' = w
    /\ pc' = [pc EXCEPT ![w] = "L310_locked"]
    /\ UNCHANGED <<bad_ips, ips_with_same_hash, target, listed, mongo_update,
                   this_server_hash, is_bad_ip, ret, pending, spawns, calls, xvars, rvars>>

\* Mutant of line 313: the port set is not consulted.
AlreadyCheckedNever(e, port) == FALSE

\* line 313: previously_checked_ports.contains(&target.port())
AlreadyChecked(e, port) == port \in e.ports

\* Mutant of line 319: the port is counted but not recorded.
OnSameHashPortNotRecorded(e, port) ==
    [count |-> Some(Unwrap(e.count) + 1), hash |-> e.hash, ports |-> e.ports]

\* lines 318-319: the fingerprint is the cached one: count it and record
\* the port.
OnSameHash(e, port) ==
    [count |-> Some(Unwrap(e.count) + 1), hash |-> e.hash,
     ports |-> e.ports \cup {port}]

\* Mutant of line 321: `>` for `>=`.
TooManyOffByOne(count) == count > PromoteCount

\* line 321: if *count >= 100
TooManyWithSameHash(count) == count >= PromoteCount

\* Mutant of lines 328-331: the entry starts over with the new fingerprint.
OnOtherHashStartOver(e, h, port) == [count |-> Some(1), hash |-> h, ports |-> {port}]

\* lines 328-331: another fingerprint: data.count = None.
OnOtherHash(e, h, port) == [e EXCEPT !.count = None]

\* lines 335-345: the first record of an address.
FirstEntry(h, port) == [count |-> Some(1), hash |-> h, ports |-> {port}]

\* HashMap::insert
MapInsert(map, key, value) ==
    [k \in DOMAIN map \cup {key} |-> IF k = key THEN value ELSE map[k]]

\* lines 311-346, the block under the guard: the new cache, the flag, the
\* hash local and whether determine_hash's `?` returned early.
CacheSection(cache, t, update) ==
    LET h == determine_hash(update)
        same == [cache |-> cache, is_bad_ip |-> FALSE, hash |-> None, early |-> FALSE]
    IN  IF t.ip \in DOMAIN cache
        THEN LET e == cache[t.ip]
             IN  IF ~AlreadyChecked(e, t.port) /\ IsSome(e.count)
                 THEN IF ~h.ok
                      THEN [same EXCEPT !.early = TRUE]
                      ELSE IF h.hash = e.hash
                      THEN LET counted == OnSameHash(e, t.port)
                           IN  [cache |-> [cache EXCEPT ![t.ip] = counted],
                                is_bad_ip |-> TooManyWithSameHash(Unwrap(counted.count)),
                                hash |-> Some(h.hash),
                                early |-> FALSE]
                      ELSE [cache |-> [cache EXCEPT ![t.ip] = OnOtherHash(e, h.hash, t.port)],
                            is_bad_ip |-> FALSE,
                            hash |-> Some(h.hash),
                            early |-> FALSE]
                 ELSE same
        ELSE IF ~h.ok
             THEN [same EXCEPT !.early = TRUE]
             ELSE [cache |-> MapInsert(cache, t.ip, FirstEntry(h.hash, t.port)),
                   is_bad_ip |-> FALSE,
                   hash |-> Some(h.hash),
                   early |-> FALSE]

\* Mutant of line 347: the guard outlives the block.
GuardKeptAfterBlock == lock

\* line 347: the guard `shared` is dropped at the end of the block.
GuardAfterBlock == Free

\* lines 311-347: the block runs under the guard taken at line 310; the guard
\* is dropped at the end of the block, or by the early return of `?`.
UpdateCache(w) ==
    /\ pc[w] = "L310_locked"
    /\ LET r == CacheSection(ips_with_same_hash, Unwrap(target[w]),
                             Unwrap(mongo_update[w]))
       IN  /\ ips_with_same_hash' = r.cache
           /\ is_bad_ip' = [is_bad_ip EXCEPT ![w] = r.is_bad_ip]
           /\ this_server_hash' = [this_server_hash EXCEPT ![w] = r.hash]
           /\ IF r.early
              THEN /\ ret' = [ret EXCEPT ![w] = Some(ErrNoSet)]
                   /\ pc' = [pc EXCEPT ![w] = "idle"]
                   /\ target' = [target EXCEPT ![w] = None]
                   /\ mongo_update' = [mongo_update EXCEPT ![w] = None]
                   /\ listed' = [listed EXCEPT ![w] = FALSE]
              ELSE /\ pc' = [pc EXCEPT ![w] = "L349"]
                   /\ UNCHANGED <<ret, target, listed, mongo_update>>
    /\ lock' = GuardAfterBlock
    /\ UNCHANGED <<bad_ips, pending, spawns, calls, xvars, rvars>>

\* lines 349-365: spawn add_to_bad_ips and bail, or return the write request.
\* The call ends and its frame is gone.
Finish(w) ==
    /\ pc[w] = "L349"
    /\ LET t == Unwrap(target[w])
       IN  IF is_bad_ip[w]
           THEN /\ pending' = [pending EXCEPT ![t.ip] = @ + 1]
                /\ spawns' = [spawns EXCEPT ![t.ip] = @ + 1]
                /\ ret' = [ret EXCEPT ![w] = Some(ErrBadIpTarget(t))]
           ELSE /\ ret' = [ret EXCEPT ![w] =
                              Some(BulkUpdate(t, Unwrap(mongo_update[w])))]
                /\ UNCHANGED <<pending, spawns>>
    /\ pc' = [pc EXCEPT ![w] = "idle"]
    /\ target' = [target EXCEPT ![w] = None]
    /\ listed' = [listed EXCEPT ![w] = FALSE]
    /\ mongo_update' = [mongo_update EXCEPT ![w] = None]
    /\ this_server_hash' = [this_server_hash EXCEPT ![w] = None]
    /\ is_bad_ip' = [is_bad_ip EXCEPT ![w] = FALSE]
    /\ UNCHANGED <<svars, calls, xvars, rvars>>

\* Database::add_to_bad_ips, the task spawned at line 350: it puts the
\* address into the shared blocklist under the lock.
AddToBadIps(ip) ==
    /\ pending[ip] > 0
    /\ lock = Free
    /\ bad_ips' = bad_ips \cup {ip}
    /\ pending' = [pending EXCEPT ![ip] = @ - 1]
    /\ UNCHANGED <<ips_with_same_hash, lock, wvars, spawns, calls, xvars, rvars>>

(***************************************************************************)
(* The store's query language, as far as get_ranges uses it.                *)
(***************************************************************************)
\* The conditions a filter document puts on one key.
Range(gt, lt) == [kind |-> "range", gt |-> gt, lt |-> lt, val |-> None]
Equals(v) == [kind |-> "eq", gt |-> None, lt |-> None, val |-> Some(v)]
Exists == [kind |-> "exists", gt |-> None, lt |-> None, val |-> None]

\* $gt/$lt compare values of one BSON type only; a missing key matches neither.
Holds(cond, doc, key) ==
    /\ key \in DOMAIN doc
    /\ CASE cond.kind = "range" ->
              /\ IsSome(cond.gt) =>
                    /\ doc[key][1] = Unwrap(cond.gt)[1]
                    /\ doc[key][2] > Unwrap(cond.gt)[2]
              /\ IsSome(cond.lt) =>
                    /\ doc[key][1] = Unwrap(cond.lt)[1]
                    /\ doc[key][2] < Unwrap(cond.lt)[2]
         [] cond.kind = "eq" -> doc[key] = Unwrap(cond.val)
         [] cond.kind = "exists" -> TRUE

\* A document matches a filter when it meets the condition of every key.
Matches(doc, f) == \A key \in DOMAIN f : Holds(f[key], doc, key)

\* Document::insert: the value of an existing key is replaced.
Insert(doc, key, value) ==
    [k \in DOMAIN doc \cup {key} |-> IF k = key THEN value ELSE doc[k]]

Min(a, b) == IF a <= b THEN a ELSE b

\* The sequences that hold every element of the set S once.
RECURSIVE Perms(_)
Perms(S) ==
    IF S = {} THEN {<<>>}
    ELSE UNION {{<<x>> \o rest : rest \in Perms(S \ {x})} : x \in S}

\* The ways to pick m of the positions 1..n, in any order.
Picks(n, m) ==
    {f \in [1..m -> 1..n] : \A i, j \in 1..m : i # j => f[i] # f[j]}

\* The rank of a document under { "$sort": { key: 1 } }: a missing key sorts
\* as null, before every date.
SortRank(doc, key) == IF key \in DOMAIN doc THEN doc[key][2] ELSE -1

\* What one stage makes of its input: the set of outputs the store may give.
\* $sort does not order documents of equal rank, and a collection scan has
\* no order of its own.
RunStage(stage, input) ==
    CASE stage.op = "$match" ->
            {SelectSeq(input, LAMBDA d : Matches(d, stage.filter))}
      [] stage.op = "$project" ->
            {[i \in 1..Len(input) |->
                [k \in DOMAIN input[i] \cap stage.fields |-> input[i][k]]]}
      [] stage.op = "$sort" ->
            {[i \in 1..Len(input) |-> input[f[i]]] :
                f \in {g \in Picks(Len(input), Len(input)) :
                        \A i, j \in 1..Len(input) :
                            i < j => SortRank(input[g[i]], stage.key)
                                        <= SortRank(input[g[j]], stage.key)}}
      [] stage.op = "$limit" ->
            {SubSeq(input, 1, Min(stage.n, Len(input)))}
      [] stage.op = "$sample" ->
            {[i \in 1..Min(stage.size, Len(input)) |-> input[f[i]]] :
                f \in Picks(Len(input), Min(stage.size, Len(input)))}

\* Collection::aggregate: the stages run in the order of the pipeline.
RECURSIVE RunPipeline(_, _)
RunPipeline(stages, inputs) ==
    IF stages = <<>> THEN inputs
    ELSE RunPipeline(Tail(stages),
                     UNION {RunStage(Head(stages), input) : input \in inputs})

(***************************************************************************)
(* get_ranges (rescan.rs:23-129).                                          *)
(***************************************************************************)
Rescan == "get_ranges"

\* The arguments of the call.
Sorts == {"Random", "Oldest"}
ExtraFilters ==
    {<<>>,
     [port |-> Equals(Int32(DefaultPort))],
     [lastSeen |-> Exists]}
ArgSets ==
    [extra_filter : ExtraFilters,
     rescan_every_secs : {5},
     players_online_ago_max_secs : {None, Some(10)},
     last_ping_ago_max_secs : {15},
     limit : {None, Some(3)},
     sort : {None} \cup {Some(x) : x \in Sorts}]

\* rescan.rs:66  limit.unwrap_or(10000000)
SampleSizeDefault == 10000000

\* Mutant of lines 34-39: the "$lt" bound of lastSeen is left out.
BuildFilterNoUpperBound(a, t) ==
    LET base == [lastSeen |->
                    Range(Some(Date(t - a.last_ping_ago_max_secs)), None)]
    IN  IF IsSome(a.players_online_ago_max_secs)
        THEN Insert(base, "lastActive",
                    Range(Some(Date(t - Unwrap(a.players_online_ago_max_secs))), None))
        ELSE base

\* lines 34-52: the filter document.
BuildFilter(a, t) ==
    LET base == [lastSeen |->
                    Range(Some(Date(t - a.last_ping_ago_max_secs)),
                          Some(Date(t - a.rescan_every_secs)))]
        extra == [k \in DOMAIN base \cup DOMAIN a.extra_filter |->
                    IF k \in DOMAIN a.extra_filter
                    THEN a.extra_filter[k] ELSE base[k]]
    IN  IF IsSome(a.players_online_ago_max_secs)
        THEN Insert(extra, "lastActive",
                    Range(Some(Date(t - Unwrap(a.players_online_ago_max_secs))), None))
        ELSE extra

\* lines 58-74: the pipeline.
BuildPipeline(a, f) ==
    LET sort == IF IsSome(a.sort) THEN Unwrap(a.sort) ELSE "Oldest"
        head == <<[op |-> "$match", filter |-> f],
                  [op |-> "$project", fields |-> {"ip", "port"}]>>
    IN  IF sort = "Random"
        THEN Append(head, [op |-> "$sample",
                           size |-> IF IsSome(a.limit) THEN Unwrap(a.limit)
                                    ELSE SampleSizeDefault])
        ELSE IF IsSome(a.limit)
             THEN head \o <<[op |-> "$sort", key |-> "lastSeen"],
                            [op |-> "$limit", n |-> Unwrap(a.limit)]>>
             ELSE Append(head, [op |-> "$sort", key |-> "lastSeen"])

\* Mutant of line 56: the guard is bound to a name and lives on.
GuardKeptByGetRanges == Rescan

\* line 56: the guard of database.shared.lock() is a temporary of the `let`
\* statement; it is dropped when the statement ends.
GuardAfterCopy == Free

\* lines 32-74: everything up to the first await, for a call whose arguments
\* are among A.
BuildQueryWith(A) ==
    /\ rpc = "idle"
    /\ lock = Free
    /\ \E a \in A :
         /\ args' = Some(a)
         /\ filter' = BuildFilter(a, now)
         /\ pipeline' = BuildPipeline(a, BuildFilter(a, now))
    /\ local_bad_ips' = bad_ips
    /\ lock' = GuardAfterCopy
    /\ ranges' = <<>>
    /\ rpc' = "L76"
    /\ UNCHANGED <<bad_ips, ips_with_same_hash, wvars, pending, spawns, calls, xvars,
                   store, now, cursor, ip_str, rret, queried, deleted>>

BuildQuery == BuildQueryWith(ArgSets)

\* lines 76-81: the aggregation succeeds and hands back a cursor.
Aggregate ==
    /\ rpc = "L76"
    /\ cursor' \in RunPipeline(pipeline, Perms(store))
    /\ queried' = store
    /\ rpc' = "L83"
    /\ UNCHANGED <<svars, wvars, pending, spawns, calls, xvars, store, now, args,
                   filter, local_bad_ips, pipeline, ip_str, ranges, rret, deleted>>

\* lines 76-81: the aggregation fails and .unwrap() panics.
AggregateFails ==
    /\ rpc = "L76"
    /\ rpc' = "panicked"
    /\ UNCHANGED <<svars, wvars, pending, spawns, calls, xvars, store, now, args,
                   filter, local_bad_ips, pipeline, cursor, ip_str, ranges, rret,
                   queried, deleted>>

\* ScanRange::single(ip, port as u16)
ScanRange(ip, port) == [ip |-> ip, port |-> port % 65536]

\* lines 84-105: what the loop body decides for one document before it
\* awaits or pushes: "skip", "delete" or "push".
Decide(doc, bad) ==
    LET str == get_str(doc, "ip")
        ip == IF IsSome(str) THEN ParseIpv4(Unwrap(str)) ELSE None
        port == get_u32(doc, "port")
    IN  IF ~IsSome(str) \/ ~IsSome(ip) \/ ~IsSome(port) THEN "skip"
        ELSE IF Unwrap(ip) \in bad /\ Unwrap(port) # DefaultPort THEN "delete"
        ELSE "push"

\* lines 83-126: the cursor yields a document and the loop body runs up to
\* its next await.
CursorDoc ==
    /\ rpc = "L83"
    /\ cursor # <<>>
    /\ cursor' = Tail(cursor)
    /\ LET doc == Head(cursor)
           what == Decide(doc, local_bad_ips)
       IN  CASE what = "skip" ->
                  UNCHANGED <<rpc, ip_str, ranges>>
             [] what = "delete" ->
                  /\ rpc' = "L107"
                  /\ ip_str' = get_str(doc, "ip")
                  /\ UNCHANGED ranges
             [] what = "push" ->
                  /\ ranges' = Append(ranges,
                        ScanRange(Unwrap(ParseIpv4(Unwrap(get_str(doc, "ip")))),
                                  Unwrap(get_u32(doc, "port"))))
                  /\ UNCHANGED <<rpc, ip_str>>
    /\ UNCHANGED <<svars, wvars, pending, spawns, calls, xvars, store, now, args,
                   filter, local_bad_ips, pipeline, rret, queried, deleted>>

OkRanges(r) == [ok |-> TRUE, ranges |-> r]
ErrStore == [ok |-> FALSE, ranges |-> <<>>]

\* lines 83, 128: the cursor is exhausted; Ok(ranges).
CursorEnd ==
    /\ rpc = "L83"
    /\ cursor = <<>>
    /\ rret' = Some(OkRanges(ranges))
    /\ rpc' = "done"
    /\ UNCHANGED <<svars, wvars, pending, spawns, calls, xvars, store, now, args,
                   filter, local_bad_ips, pipeline, cursor, ip_str, ranges,
                   queried, deleted>>

\* lines 83, 128: the cursor yields Some(Err(_)); `while let Some(Ok(doc))`
\* does not match, the loop ends and the function returns Ok(ranges).
CursorError ==
    /\ rpc = "L83"
    /\ cursor # <<>>
    /\ rret' = Some(OkRanges(ranges))
    /\ rpc' = "done"
    /\ UNCHANGED <<svars, wvars, pending, spawns, calls, xvars, store, now, args,
                   filter, local_bad_ips, pipeline, cursor, ip_str, ranges,
                   queried, deleted>>

\* The filter of the delete_many call, lines 111-114: { "ip": ip_str,
\* "port": { "$ne": 25565 } }.  $ne also matches a document without the key.
DeleteMatches(doc, str) ==
    /\ get_str(doc, "ip") = Some(str)
    /\ ~("port" \in DOMAIN doc /\ doc["port"] = Int32(DefaultPort))

\* lines 107-119: delete_many succeeds; the address leaves the local copy
\* of the blocklist and the loop goes on.  The collection named at lines
\* 109-110 is taken to be the one servers_coll() queries.
DeleteMany ==
    /\ rpc = "L107"
    /\ store' = {d \in store : ~DeleteMatches(d, Unwrap(ip_str))}
    /\ deleted' = Append(deleted, Unwrap(ip_str))
    /\ local_bad_ips' = local_bad_ips \ {Unwrap(ParseIpv4(Unwrap(ip_str)))}
    /\ ip_str' = None
    /\ rpc' = "L83"
    /\ UNCHANGED <<svars, wvars, pending, spawns, calls, xvars, now, args, filter,
                   pipeline, cursor, ranges, rret, queried>>

\* lines 107-115: delete_many fails and `?` returns the error.
DeleteManyFails ==
    /\ rpc = "L107"
    /\ rret' = Some(ErrStore)
    /\ rpc' = "done"
    /\ UNCHANGED <<svars, wvars, pending, spawns, calls, xvars, store, now, args,
                   filter, local_bad_ips, pipeline, cursor, ip_str, ranges,
                   queried, deleted>>

(***************************************************************************)
(* The stored collection get_ranges runs against.                          *)
(***************************************************************************)
Server(ip, port, seen, active) ==
    [ip |-> Str(ip), port |-> Int32(port), lastSeen |-> Date(seen),
     lastActive |-> Date(active)]

\* With now = 20, last_ping_ago_max_secs = 15 and rescan_every_secs = 5 the
\* documents with 5 < lastSeen < 15 are due.
DuePool ==
    {Server("10.0.0.1", DefaultPort, 6, 6),
     Server("10.0.0.1", 1, 7, 12),
     Server("10.0.0.1", 2, 8, 12),
     Server("10.0.0.2", DefaultPort, 9, 11),
     [ip |-> Str("10.0.0.2"), port |-> Int32(3), lastSeen |-> Date(10)]}
OtherPool ==
    {Server("10.0.0.2", 4, 5, 12),
     Server("10.0.0.2", 5, 15, 12),
     Server("not an address", 6, 11, 12),
     [ip |-> Str("10.0.0.1"), lastSeen |-> Date(12), lastActive |-> Date(12)],
     [ip |-> Str("10.0.0.2"), port |-> Int32(7), last_seen |-> Date(10),
      lastActive |-> Date(12)]}

\* The collections the model starts from: every collection of at most
\* MaxDocs of these documents, and the collection of the five due ones.
Stores ==
    {S \in SUBSET (DuePool \cup OtherPool) : Cardinality(S) <= MaxDocs}
        \cup {DuePool}

\* SharedData after (a1, p) was processed for p = 1..WarmPorts with one and
\* the same fingerprint: the state the sequential scan reaches after
\* WarmPorts probes (under SpecScan).
WarmPorts == PromoteCount - 2
WarmCache ==
    [ip \in Addrs |->
        [count |-> Some(WarmPorts),
         hash |-> determine_hash([set |-> Some(CleanedDoc("A Minecraft Server", 0))]).hash,
         ports |-> 1..WarmPorts]]

\* clean_response_data, process and get_addrs_and_protocol_versions have
\* not been called.
CleanIdle ==
    /\ response = None
    /\ cleaned = None
ProcessIdle ==
    /\ data = [w \in Workers |-> None]
    /\ out = [w \in Workers |-> None]
FingerprintIdle ==
    /\ fpc = "idle"
    /\ fcursor = <<>>
    /\ results = <<>>
    /\ counts = [count |-> 0, ip_missing |-> 0, port_missing |-> 0]
    /\ fret = None
OthersIdle == CleanIdle /\ ProcessIdle /\ FingerprintIdle

\* SharedData::default() and no call of create_bulk_update under way.
WorkersIdle ==
    /\ bad_ips = {}
    /\ ips_with_same_hash = <<>>
    /\ lock = Free
    /\ pc = [w \in Workers |-> "idle"]
    /\ target = [w \in Workers |-> None]
    /\ listed = [w \in Workers |-> FALSE]
    /\ mongo_update = [w \in Workers |-> None]
    /\ this_server_hash = [w \in Workers |-> None]
    /\ is_bad_ip = [w \in Workers |-> FALSE]
    /\ ret = [w \in Workers |-> None]
    /\ pending = [ip \in Addrs |-> 0]
    /\ spawns = [ip \in Addrs |-> 0]
    /\ calls = 0

\* No call of get_ranges has started.
RescanIdle ==
    /\ rpc = "idle"
    /\ args = None
    /\ filter = <<>>
    /\ local_bad_ips = {}
    /\ pipeline = <<>>
    /\ cursor = <<>>
    /\ ip_str = None
    /\ ranges = <<>>
    /\ rret = None
    /\ queried = {}
    /\ deleted = <<>>

\* SharedData::default() and idle workers: the state after construction.
InitWith(cache) ==
    /\ bad_ips = {}
    /\ ips_with_same_hash = cache
    /\ lock = Free
    /\ pc = [w \in Workers |-> "idle"]
    /\ target = [w \in Workers |-> None]
    /\ listed = [w \in Workers |-> FALSE]
    /\ mongo_update = [w \in Workers |-> None]
    /\ this_server_hash = [w \in Workers |-> None]
    /\ is_bad_ip = [w \in Workers |-> FALSE]
    /\ ret = [w \in Workers |-> None]
    /\ pending = [ip \in Addrs |-> 0]
    /\ spawns = [ip \in Addrs |-> 0]
    /\ calls = 0
    /\ store = {}
    /\ now = 20
    /\ RescanIdle
    /\ OthersIdle

\* The sequential scan starts from the state after construction.
ScanInit == InitWith(<<>>)

\* The concurrent workers start from the state after construction, or from
\* the state a scan of WarmPorts ports of one address has left behind (the
\* promotion threshold of 100 distinct ports is otherwise out of reach of
\* MaxCalls calls).
Init == InitWith(<<>>) \/ InitWith(WarmCache)

Next ==
    \/ \E w \in Workers : Call(w)
    \/ \E w \in Workers : CheckBlocklist(w)
    \/ \E w \in Workers : LockForCache(w)
    \/ \E w \in Workers : UpdateCache(w)
    \/ \E w \in Workers : Finish(w)
    \/ \E ip \in Addrs : AddToBadIps(ip)

Spec == Init /\ [][Next]_vars

\* The workers are threads the operating system keeps running: a worker
\* inside create_bulk_update takes its next step when that step stays
\* possible.  Nothing obliges the scanner to start a call or the runtime to
\* run a spawned task.
WorkersRun ==
    \A w \in Workers :
        /\ WF_vars(CheckBlocklist(w))
        /\ WF_vars(LockForCache(w))
        /\ WF_vars(UpdateCache(w))
        /\ WF_vars(Finish(w))

SpecLive == Init /\ [][Next]_vars /\ WorkersRun

\* One worker processes the records one after the other.
ScanWorker == "w1"

ScanNext ==
    \/ ScanCall(ScanWorker)
    \/ CheckBlocklist(ScanWorker)
    \/ LockForCache(ScanWorker)
    \/ UpdateCache(ScanWorker)
    \/ Finish(ScanWorker)
    \/ \E ip \in Addrs : AddToBadIps(ip)

SpecScan == ScanInit /\ [][ScanNext]_vars

\* The address has been promoted by 100 ports with one fingerprint.
PromotedCache ==
    [ip \in Addrs |->
        [count |-> Some(PromoteCount), hash |-> WarmCache[ip].hash,
         ports |-> 1..PromoteCount]]

\* get_ranges is called on a running process: nothing is blocklisted yet, or
\* Addr1 has been promoted and its add_to_bad_ips task has run.
RescanInit ==
    /\ \/ bad_ips = {} /\ ips_with_same_hash = <<>>
          /\ pending = [ip \in Addrs |-> 0] /\ spawns = [ip \in Addrs |-> 0]
       \/ bad_ips = {Addr1} /\ ips_with_same_hash = PromotedCache
          /\ pending = [ip \in Addrs |-> 0] /\ spawns = [ip \in Addrs |-> 1]
    /\ lock = Free
    /\ pc = [w \in Workers |-> "idle"]
    /\ target = [w \in Workers |-> None]
    /\ listed = [w \in Workers |-> FALSE]
    /\ mongo_update = [w \in Workers |-> None]
    /\ this_server_hash = [w \in Workers |-> None]
    /\ is_bad_ip = [w \in Workers |-> FALSE]
    /\ ret = [w \in Workers |-> None]
    /\ calls = 0
    /\ store \in Stores
    /\ now = 20
    /\ RescanIdle
    /\ OthersIdle

RescanNext ==
    \/ BuildQuery
    \/ Aggregate
    \/ AggregateFails
    \/ CursorDoc
    \/ CursorEnd
    \/ CursorError
    \/ DeleteMany
    \/ DeleteManyFails

SpecRescan == RescanInit /\ [][RescanNext]_vars

\* One worker and get_ranges side by side on the one SharedData.  The worker
\* starts from WarmCache, so that it promotes Addr1 within MaxCalls calls;
\* get_ranges runs with the default arguments over a collection that holds
\* Addr1 on the default port and on another one.
LockStore ==
    {Server("10.0.0.1", 1, 7, 12), Server("10.0.0.1", DefaultPort, 8, 12)}
LockArgs ==
    {a \in ArgSets : /\ a.extra_filter = <<>>
                     /\ a.players_online_ago_max_secs = None
                     /\ a.limit = None
                     /\ a.sort = None}

LockInit ==
    /\ bad_ips = {}
    /\ ips_with_same_hash = WarmCache
    /\ lock = Free
    /\ pc = [w \in Workers |-> "idle"]
    /\ target = [w \in Workers |-> None]
    /\ listed = [w \in Workers |-> FALSE]
    /\ mongo_update = [w \in Workers |-> None]
    /\ this_server_hash = [w \in Workers |-> None]
    /\ is_bad_ip = [w \in Workers |-> FALSE]
    /\ ret = [w \in Workers |-> None]
    /\ pending = [ip \in Addrs |-> 0]
    /\ spawns = [ip \in Addrs |-> 0]
    /\ calls = 0
    /\ store = LockStore
    /\ now = 20
    /\ RescanIdle
    /\ OthersIdle

LockBuildQuery == BuildQueryWith(LockArgs)

LockNext ==
    \/ Call(ScanWorker)
    \/ CheckBlocklist(ScanWorker)
    \/ LockForCache(ScanWorker)
    \/ UpdateCache(ScanWorker)
    \/ Finish(ScanWorker)
    \/ \E ip \in Addrs : AddToBadIps(ip)
    \/ LockBuildQuery
    \/ Aggregate
    \/ AggregateFails
    \/ CursorDoc
    \/ CursorEnd
    \/ CursorError
    \/ DeleteMany
    \/ DeleteManyFails

SpecLock == LockInit /\ [][LockNext]_vars

(***************************************************************************)
(* JSON values (serde_json::Value) and their BSON images.  A value carries *)
(* its type; objects and documents are functions from their keys.          *)
(***************************************************************************)
JNull == <<"null", 0>>
JNum(n) == <<"number", n>>
JStr(str) == <<"string", str>>
JArr(seq) == <<"array", seq>>
JObj(f) == <<"object", f>>

BNull == <<"null", 0>>
Bool(b) == <<"bool", b>>
Doc(f) == <<"document", f>>
Arr(seq) == <<"array", seq>>

\* minecraft.rs:69  Bson::deserialize(data): a non-negative integer that
\* fits i32 becomes Int32 (the numbers of the model are of this kind); the
\* other values keep their type.
RECURSIVE ToBson(_)
ToBson(v) ==
    CASE v[1] = "null" -> BNull
      [] v[1] = "bool" -> Bool(v[2])
      [] v[1] = "number" -> Int32(v[2])
      [] v[1] = "string" -> Str(v[2])
      [] v[1] = "array" -> Arr([i \in 1..Len(v[2]) |-> ToBson(v[2][i])])
      [] v[1] = "object" -> Doc([k \in DOMAIN v[2] |-> ToBson(v[2][k])])

\* Document::get and the .and_then(..) chains of lines 105-130 and 159-177.
Get(d, key) == IF key \in DOMAIN d THEN Some(d[key]) ELSE None
GetIn(o, key) == IF IsSome(o) THEN Get(Unwrap(o), key) ELSE None
AsType(o, type) ==
    IF IsSome(o) /\ Unwrap(o)[1] = type THEN Some(Unwrap(o)[2]) ELSE None
AsDocument(o) == AsType(o, "document")
AsStr(o) == AsType(o, "string")
AsI32(o) == AsType(o, "int32")
AsArray(o) == AsType(o, "array")
UnwrapOr(o, d) == IF IsSome(o) THEN Unwrap(o) ELSE d

\* Document::extend: the keys of `b` are put into `a`.
Extend(a, b) == b @@ a

(***************************************************************************)
(* Strings whose characters the code looks at: the player identifiers.     *)
(***************************************************************************)
Rep(c, n) == [i \in 1..n |-> c]

\* An identifier with the digit d everywhere and the version nibble v.
UuidChars(d, v) ==
    Rep(d, 8) \o <<"-">> \o Rep(d, 4) \o <<"-", v>> \o Rep(d, 3) \o <<"-">>
        \o Rep(d, 4) \o <<"-">> \o Rep(d, 12)

IdV4 == "11111111-1111-4111-1111-111111111111"
IdV3 == "11111111-1111-3111-1111-111111111111"
IdV1 == "11111111-1111-1111-1111-111111111111"
IdNil == "00000000-0000-0000-0000-000000000000"
IdUpper == "AAAAAAAA-AAAA-4AAA-AAAA-AAAAAAAAAAAA"
IdShort == "abc"

\* str::chars, on the identifiers of the model.
Chars(str) ==
    CASE str = IdV4 -> UuidChars("1", "4")
      [] str = IdV3 -> UuidChars("1", "3")
      [] str = IdV1 -> UuidChars("1", "1")
      [] str = IdNil -> UuidChars("0", "0")
      [] str = IdUpper -> UuidChars("A", "4")
      [] str = IdShort -> <<"a", "b", "c">>
      [] str = "" -> <<>>

\* The String of a sequence of characters.
RECURSIVE Concat(_)
Concat(seq) ==
    IF seq = <<>> THEN ""
    ELSE IF Len(seq) = 1 THEN seq[1]
    ELSE LET half == Len(seq) \div 2
         IN  Concat(SubSeq(seq, 1, half)) \o Concat(SubSeq(seq, half + 1, Len(seq)))

\* line 179: uuid.replace('-', "")
WithoutDashes(chars) == SelectSeq(chars, LAMBDA c : c # "-")

\* line 182: Regex "[0-9a-f]{12}[34][0-9a-f]{19}", is_match (not anchored).
HexDigits ==
    {"0", "1", "2", "3", "4", "5", "6", "7", "8", "9", "a", "b", "c", "d", "e", "f"}
RegexMatchesAt(u, i) ==
    /\ \A k \in 0..11 : u[i + k] \in HexDigits
    /\ u[i + 12] \in {"3", "4"}
    /\ \A k \in 13..31 : u[i + k] \in HexDigits
UUID_REGEX_is_match(u) == \E i \in 1..(Len(u) - 31) : RegexMatchesAt(u, i)

\* line 191: uuid.chars().all(|c| c == '0')
IsNil(u) == \A i \in 1..Len(u) : u[i] = "0"

\* line 195: uuid.len() >= 12 && uuid[12..].starts_with('4')
IsUuidV4(u) == Len(u) >= 12 /\ Len(u) >= 13 /\ u[13] = "4"

(***************************************************************************)
(* clean_response_data (minecraft.rs:67-280).                              *)
(***************************************************************************)
\* minecraft.rs:27
ANONYMOUS_PLAYER_NAME == "Anonymous Player"

\* minecraft.rs:165  .take(100)
SampleTake == 100

\* line 74: FormattedText::deserialize(d) and, line 80, to_string(): a
\* string is its own text, another primitive is the empty text, an object
\* needs a "text"; an object without one and an empty array do not
\* deserialize.
FormattedTextDeserialize(d) ==
    CASE d[1] = "string" -> [ok |-> TRUE, text |-> d[2]]
      [] d[1] \in {"null", "number", "bool"} -> [ok |-> TRUE, text |-> ""]
      [] d[1] = "object" ->
            IF "text" \in DOMAIN d[2] /\ d[2]["text"][1] = "string"
            THEN [ok |-> TRUE, text |-> d[2]["text"][2]]
            ELSE [ok |-> FALSE, text |-> ""]
      [] d[1] = "array" -> [ok |-> FALSE, text |-> ""]

\* line 74: .unwrap_or_default(): the empty text when it does not deserialize.
DescriptionText(d) ==
    LET ft == FormattedTextDeserialize(d)
    IN  IF ft.ok THEN ft.text ELSE ""

\* lines 132-138: the fragments description.contains(..) looks for, and
\* lines 139-142: the version names matched (those written in ASCII).
PlaceholderFragments ==
    {"Craftserve.pl - wydajny hosting Minecraft!",
     "Ochrona DDoS: Przekroczono limit polaczen.",
     "Start the server at FalixNodes.net/start",
     "This server is offline Powcered by FalixNodes.net",
     "Serwer jest aktualnie wy",
     "Blad pobierania statusu. Polacz sie bezposrednio!"}
PlaceholderVersions == {"COSMIC GUARD", "TCPShield.com"}

\* str::contains, for the descriptions of the model: a description holds a
\* fragment when it is the fragment after one of these beginnings.
Beginnings == {"", "Welcome! "}
Contains(description, fragment) ==
    \E b \in Beginnings : description = b \o fragment

\* lines 132-143: the condition of the `if`.
IsPlaceholder(description, version_name) ==
    \/ \E f \in PlaceholderFragments : Contains(description, f)
    \/ version_name \in PlaceholderVersions

\* line 156: the description of servers that randomize their sample.
PrivacyDescription ==
    "To protect the privacy of this server and its\nusers, you must log in once to see ping data."

\* lines 147-153: the locals of the loop before its first round; `early` is
\* the return of the `?` of line 168.
LoopStart ==
    [is_online_mode |-> None, mixed_online_mode |-> FALSE,
     fake_sample |-> FALSE, has_players |-> FALSE, players_data |-> <<>>,
     early |-> FALSE]

\* Mutant of lines 196-197: only a v4 identifier after a v3 one is a mix.
OnlineModeStepOneWay(st, uuid) ==
    IF st.mixed_online_mode \/ IsNil(uuid) THEN st
    ELSE IF IsUuidV4(uuid) /\ st.is_online_mode = Some(FALSE)
         THEN [st EXCEPT !.mixed_online_mode = TRUE]
         ELSE IF st.is_online_mode = None
              THEN [st EXCEPT !.is_online_mode = Some(IsUuidV4(uuid))]
              ELSE st

\* lines 189-204: what one identifier does to the online-mode locals.
OnlineModeStep(st, uuid) ==
    IF st.mixed_online_mode \/ IsNil(uuid) THEN st
    ELSE IF \/ IsUuidV4(uuid) /\ st.is_online_mode = Some(FALSE)
            \/ ~IsUuidV4(uuid) /\ st.is_online_mode = Some(TRUE)
         THEN [st EXCEPT !.mixed_online_mode = TRUE]
         ELSE IF st.is_online_mode = None
              THEN [st EXCEPT !.is_online_mode = Some(IsUuidV4(uuid))]
              ELSE st

\* lines 168-215: one round of the loop.
PlayerStep(st, player, t) ==
    IF st.early THEN st
    ELSE IF player[1] # "document" THEN [st EXCEPT !.early = TRUE]
    ELSE LET id == UnwrapOr(AsStr(Get(player[2], "id")), "")
             name == UnwrapOr(AsStr(Get(player[2], "name")), "")
             uuid == WithoutDashes(Chars(id))
             fake == ~UUID_REGEX_is_match(uuid) /\ name # ANONYMOUS_PLAYER_NAME
             seen == OnlineModeStep(st, uuid)
             player_doc == Doc([last_seen |-> Date(t), name |-> Str(name)])
         IN  [seen EXCEPT
                !.fake_sample = st.fake_sample \/ fake,
                !.players_data =
                    Extend(st.players_data,
                           ("players." \o Concat(uuid)) :> player_doc),
                !.has_players = TRUE]

\* lines 159-217: the loop over the entries of `sample`: the rounds run in
\* the order of the sequence, the first half before the second, and none
\* runs after the return of line 168.
RECURSIVE PlayersLoop(_, _, _)
PlayersLoop(st, sample, t) ==
    IF st.early \/ sample = <<>> THEN st
    ELSE IF Len(sample) = 1 THEN PlayerStep(st, sample[1], t)
    ELSE LET half == Len(sample) \div 2
         IN  PlayersLoop(PlayersLoop(st, SubSeq(sample, 1, half), t),
                         SubSeq(sample, half + 1, Len(sample)), t)

\* Mutant of lines 219-240: extra_data is filled for a fake sample too.
ExtraDataForFake(st, t) ==
    LET cracked ==
            IF st.mixed_online_mode THEN [isCracked |-> BNull]
            ELSE IF IsSome(st.is_online_mode)
                 THEN [isCracked |-> Bool(Unwrap(st.is_online_mode))]
                 ELSE <<>>
        seen == Extend(cracked, [last_seen |-> Date(t)])
    IN  IF st.has_players
        THEN Extend(seen, [lastActive |-> Date(t)])
        ELSE Extend(seen, [lastEmpty |-> Date(t)])

\* lines 219-240: extra_data.
ExtraData(st, t) ==
    IF st.fake_sample THEN <<>>
    ELSE LET cracked ==
                 IF st.mixed_online_mode THEN [isCracked |-> BNull]
                 ELSE IF IsSome(st.is_online_mode)
                      THEN [isCracked |-> Bool(Unwrap(st.is_online_mode))]
                      ELSE <<>>
             seen == Extend(cracked, [last_seen |-> Date(t)])
         IN  IF st.has_players
             THEN Extend(seen, [lastActive |-> Date(t)])
             ELSE Extend(seen, [lastEmpty |-> Date(t)])

\* clean_response_data(data) at the time t.  (The isModded key of lines
\* 93-103 goes into `data`, which line 276 no longer puts into the result.)
clean_response_data(json, t) ==
    IF json[1] # "object" \/ "description" \notin DOMAIN json[2] THEN None
    ELSE
    LET bson == ToBson(json)[2]
        description == DescriptionText(json[2]["description"])
        version == AsDocument(Get(bson, "version"))
        players == AsDocument(Get(bson, "players"))
        version_name == UnwrapOr(AsStr(GetIn(version, "name")), "")
        version_protocol == UnwrapOr(AsI32(GetIn(version, "protocol")), 0)
        max_players == UnwrapOr(AsI32(GetIn(players, "max")), 0)
        online_players == UnwrapOr(AsI32(GetIn(players, "online")), 0)
        all == UnwrapOr(AsArray(GetIn(players, "sample")), <<>>)
        sample == IF description = PrivacyDescription THEN <<>>
                  ELSE SubSeq(all, 1, Min(SampleTake, Len(all)))
        st == PlayersLoop(LoopStart, sample, t)
        final_cleaned ==
            [updated_at |-> Date(t),
             online_players |-> Int32(online_players),
             max_players |-> Int32(max_players),
             version |-> Str(version_name),
             protocol |-> Int32(version_protocol),
             description |-> Str(description)]
        with_players == IF st.fake_sample THEN final_cleaned
                        ELSE Extend(final_cleaned, st.players_data)
    IN  IF IsPlaceholder(description, version_name) THEN None
        ELSE IF st.early THEN None
        ELSE Some(Extend(with_players, ExtraData(st, t)))

(***************************************************************************)
(* The raw responses clean_response_data is applied to.                    *)
(***************************************************************************)
\* A sample is a run of one and the same player, of a length around the 100
\* entries the loop takes, followed by at most MaxTail entries of any kind.
MaxTail == 2

Player(id, name) == JObj([id |-> JStr(id), name |-> JStr(name)])
Steve == Player(IdV4, "Steve")
Alex == Player(IdV3, "Alex")
PlayerKinds ==
    {Steve,
     Alex,
     Player(IdNil, ANONYMOUS_PLAYER_NAME),
     Player(IdV1, "Herobrine"),
     Player(IdV1, ANONYMOUS_PLAYER_NAME),
     Player(IdUpper, "Notch"),
     JObj([name |-> JStr("Nobody")]),
     JStr("Steve")}
RunLengths == {0, SampleTake - 1, SampleTake}
Tails == UNION {[1..n -> PlayerKinds] : n \in 0..MaxTail}
Samples == {Rep(Steve, n) \o tail : n \in RunLengths, tail \in Tails}

\* The JSON object with the keys whose value is given.
Object(description, version, players) ==
    JObj(Extend(Extend(
        IF IsSome(description) THEN [description |-> Unwrap(description)] ELSE <<>>,
        IF IsSome(version) THEN [version |-> Unwrap(version)] ELSE <<>>),
        IF IsSome(players) THEN [players |-> Unwrap(players)] ELSE <<>>))

Version(name, protocol) == JObj([name |-> JStr(name), protocol |-> JNum(protocol)])
Players(max, online, sample) ==
    JObj([max |-> JNum(max), online |-> JNum(online), sample |-> JArr(sample)])

Descriptions ==
    {None,
     Some(JStr("A Minecraft Server")),
     Some(JStr(PrivacyDescription)),
     Some(JStr("Serwer jest aktualnie wy")),
     Some(JStr("Welcome! Start the server at FalixNodes.net/start")),
     Some(JObj([text |-> JStr("Hello")])),
     Some(JObj([color |-> JStr("red")])),
     Some(JNull),
     Some(JNum(5))}
Versions ==
    {None,
     Some(Version("1.20.4", 765)),
     Some(Version("COSMIC GUARD", 765)),
     Some(JObj([name |-> JStr("1.20.4"), protocol |-> JStr("765")])),
     Some(JStr("1.8"))}
FewSamples ==
    {<<>>, <<Steve, Alex>>, <<Alex, Steve>>, <<Player(IdShort, "Herobrine"), Steve>>,
     Rep(Alex, SampleTake) \o <<Steve>>}
PlayerFields ==
    {None, Some(JObj([max |-> JNum(20), online |-> JNum(0)]))}
        \cup {Some(Players(20, 3, smp)) : smp \in FewSamples}

Responses ==
    {Object(Some(JStr("A Minecraft Server")), Some(Version("1.20.4", 765)),
            Some(Players(20, 3, smp))) : smp \in Samples}
    \cup {Object(d, v, p) : d \in Descriptions, v \in Versions, p \in PlayerFields}
    \cup {JArr(<<>>), JStr("A Minecraft Server"), JNull}

\* clean_response_data is applied to one response.
CleanInit ==
    /\ WorkersIdle
    /\ store = {}
    /\ now = 20
    /\ RescanIdle
    /\ ProcessIdle
    /\ FingerprintIdle
    /\ response \in {Some(r) : r \in Responses}
    /\ cleaned = None

Clean ==
    /\ IsSome(response)
    /\ cleaned = None
    /\ cleaned' = Some(clean_response_data(Unwrap(response), now))
    /\ UNCHANGED <<svars, wvars, pending, spawns, calls, rvars, response, pvars, fvars>>

CleanNext == Clean

SpecClean == CleanInit /\ [][CleanNext]_vars

(***************************************************************************)
(* process (minecraft.rs:31-62): parse the bytes a server answered with,   *)
(* clean them and build the write request.                                 *)
(***************************************************************************)
\* The bytes of a response: the text of a JSON value, or bytes that are not
\* the text of any.
Text(json) == <<"text", json>>
NotJson(bytes) == <<"bytes", bytes>>

\* The responses process is called with: two servers with one fingerprint,
\* a server with another description, one with a fabricated player, a
\* placeholder, an object without description, and values that are no objects.
PlainResponse ==
    Object(Some(JStr("A Minecraft Server")), Some(Version("1.20.4", 765)),
           Some(Players(20, 0, <<>>)))
ProcessResponses ==
    {PlainResponse,
     Object(Some(JStr("A Minecraft Server")), Some(Version("1.20.4", 765)),
            Some(Players(20, 3, <<Steve, Alex>>))),
     Object(Some(JObj([text |-> JStr("Hello")])), Some(Version("1.20.4", 765)),
            Some(Players(20, 3, <<Player(IdShort, "Herobrine"), Steve>>))),
     Object(Some(JStr("Serwer jest aktualnie wy")), None, None),
     Object(None, Some(Version("1.20.4", 765)), Some(Players(20, 3, <<Steve>>))),
     JArr(<<>>)}
RawResponses ==
    {NotJson(""), NotJson("HTTP/1.1 400 Bad Request")}
        \cup {Text(j) : j \in ProcessResponses}

\* Mutant of lines 42-48: bytes that do not parse count as a plain response.
from_str_or_default(bytes) ==
    [ok |-> TRUE, json |-> IF bytes[1] = "text" THEN bytes[2] ELSE PlainResponse]

\* lines 38-48: String::from_utf8_lossy and serde_json::from_str.
from_str(bytes) ==
    IF bytes[1] = "text"
    THEN [ok |-> TRUE, json |-> bytes[2]]
    ELSE [ok |-> FALSE, json |-> JNull]

\* A call of process by worker w is under way.
InProcess(w) == IsSome(data[w]) /\ out[w] = None

\* The scanner calls process(shared, config, target, data, database) with
\* bytes among R.
ProcessStartWith(w, R) ==
    /\ calls < MaxCalls
    /\ pc[w] = "idle"
    /\ ~InProcess(w)
    /\ \E bytes \in R, ip \in Addrs :
         \E port \in ProbePorts(w, ip) :
            data' = [data EXCEPT ![w] =
                        Some([bytes |-> bytes, target |-> [ip |-> ip, port |-> port]])]
    /\ out' = [out EXCEPT ![w] = None]
    /\ calls' = calls + 1
    /\ UNCHANGED <<svars, wvars, pending, spawns, rvars, cvars, fvars>>

ProcessStart(w) == ProcessStartWith(w, RawResponses)

\* lines 38-52: the bytes are parsed and cleaned; None is returned when
\* either fails, else create_bulk_update is entered with
\* doc! { "$set": cleaned_data }.
ProcessParse(w) ==
    /\ InProcess(w)
    /\ pc[w] = "idle"
    /\ ret[w] = None
    /\ LET d == Unwrap(data[w])
           parsed == from_str(d.bytes)
           cleaned_data == IF parsed.ok
                           THEN clean_response_data(parsed.json, now)
                           ELSE None
       IN  IF IsSome(cleaned_data)
           THEN /\ target' = [target EXCEPT ![w] = Some(d.target)]
                /\ mongo_update' = [mongo_update EXCEPT ![w] =
                                       Some([set |-> Some(Unwrap(cleaned_data))])]
                /\ this_server_hash' = [this_server_hash EXCEPT ![w] = None]
                /\ is_bad_ip' = [is_bad_ip EXCEPT ![w] = FALSE]
                /\ pc' = [pc EXCEPT ![w] = "L287"]
                /\ UNCHANGED <<listed, ret, out>>
           ELSE /\ out' = [out EXCEPT ![w] = Some(None)]
                /\ UNCHANGED wvars
    /\ UNCHANGED <<svars, pending, spawns, calls, rvars, cvars, data, fvars>>

\* lines 52-58: Ok(r) => Some(r); Err(err) => the error is logged and None
\* is returned.
ProcessReturn(w) ==
    /\ InProcess(w)
    /\ pc[w] = "idle"
    /\ IsSome(ret[w])
    /\ out' = [out EXCEPT ![w] =
                  Some(IF Unwrap(ret[w]).ok THEN Unwrap(ret[w]).bulk ELSE None)]
    /\ ret' = [ret EXCEPT ![w] = None]
    /\ UNCHANGED <<svars, pc, target, listed, mongo_update, this_server_hash,
                   is_bad_ip, pending, spawns, calls, rvars, cvars, data, fvars>>

\* The cache a scan of WarmPorts ports of servers answering like
\* PlainResponse has left behind.
ProcessWarmCache ==
    [ip \in Addrs |->
        [count |-> Some(WarmPorts),
         hash |-> determine_hash(
                      [set |-> Some(Unwrap(clean_response_data(PlainResponse, 20)))]).hash,
         ports |-> 1..WarmPorts]]

ProcessInit == InitWith(<<>>) \/ InitWith(ProcessWarmCache)

ProcessNext ==
    \/ ProcessStart(ScanWorker)
    \/ ProcessParse(ScanWorker)
    \/ CheckBlocklist(ScanWorker)
    \/ LockForCache(ScanWorker)
    \/ UpdateCache(ScanWorker)
    \/ Finish(ScanWorker)
    \/ ProcessReturn(ScanWorker)
    \/ \E ip \in Addrs : AddToBadIps(ip)

SpecProcess == ProcessInit /\ [][ProcessNext]_vars

(***************************************************************************)
(* get_addrs_and_protocol_versions (fingerprint.rs:64-139).                *)
(***************************************************************************)
\* { "$exists": false }
Missing == [kind |-> "missing", gt |-> None, lt |-> None, val |-> None]

\* Mutant of lines 71-87: without the `$exists: false` branch of "$or".
FingerprintFilterNoExists(t) ==
    [lastSeen |-> Range(Some(Date(t - 60 * 60 * 2)), None),
     or |-> <<[fingerprintTimestamp |->
                  Range(None, Some(Date(t - 60 * 60 * 24 * 7)))]>>]

\* lines 69-87: the filter document, with the branches of "$or" as a sequence.
FingerprintFilter(t) ==
    [lastSeen |-> Range(Some(Date(t - 60 * 60 * 2)), None),
     or |-> <<[fingerprintTimestamp |->
                  Range(None, Some(Date(t - 60 * 60 * 24 * 7)))],
              [fingerprintTimestamp |-> Missing]>>]

\* A document matches one branch of "$or" when it meets each of its conditions.
MatchesBranch(doc, branch) ==
    \A key \in DOMAIN branch :
        IF branch[key].kind = "missing"
        THEN key \notin DOMAIN doc
        ELSE Holds(branch[key], doc, key)

\* find(filter): the documents that meet the lastSeen condition and at least
\* one branch of "$or".
FindMatches(doc, f) ==
    /\ Holds(f.lastSeen, doc, "lastSeen")
    /\ \E i \in 1..Len(f.or) : MatchesBranch(doc, f.or[i])

\* Document::get_i32
get_i32(doc, key) ==
    IF key \in DOMAIN doc /\ doc[key][1] = "int32" THEN Some(doc[key][2]) ELSE None

\* line 122: the protocol version assumed for a record without one.
DefaultProtocol == 47

OkResults(r) == [ok |-> TRUE, results |-> r]
ErrFind == [ok |-> FALSE, results |-> <<>>]

\* line 99: find(filter) succeeds; the cursor will yield the matching
\* documents in an order of the store's choosing.
Find ==
    /\ fpc = "idle"
    /\ fret = None
    /\ fcursor' \in Perms({d \in store : FindMatches(d, FingerprintFilter(now))})
    /\ fpc' = "L104"
    /\ UNCHANGED <<svars, wvars, pending, spawns, calls, rvars, cvars, pvars,
                   results, counts, fret>>

\* line 99: find(filter) fails and `?` returns the error.
FindFails ==
    /\ fpc = "idle"
    /\ fret = None
    /\ fret' = Some(ErrFind)
    /\ fpc' = "done"
    /\ UNCHANGED <<svars, wvars, pending, spawns, calls, rvars, cvars, pvars,
                   fcursor, results, counts>>

\* lines 104-131: the cursor yields a document.  It is counted; with a string
\* ip and a port it is pushed, after ip_str.parse::<Ipv4Addr>().unwrap(),
\* which panics on a string that is no address.
NextDoc ==
    /\ fpc = "L104"
    /\ fcursor # <<>>
    /\ LET doc == Head(fcursor)
           ip == get_str(doc, "ip")
           port == get_u32(doc, "port")
       IN  /\ counts' = [count |-> counts.count + 1,
                         ip_missing |-> counts.ip_missing + (IF IsSome(ip) THEN 0 ELSE 1),
                         port_missing |-> counts.port_missing + (IF IsSome(port) THEN 0 ELSE 1)]
           /\ IF IsSome(ip) /\ IsSome(port)
              THEN IF IsSome(ParseIpv4(Unwrap(ip)))
                   THEN /\ results' = Append(results,
                               [addr |-> ScanRange(Unwrap(ParseIpv4(Unwrap(ip))), Unwrap(port)),
                                protocol |-> IF IsSome(get_i32(doc, "protocol"))
                                             THEN Unwrap(get_i32(doc, "protocol"))
                                             ELSE DefaultProtocol])
                        /\ fpc' = fpc
                   ELSE /\ results' = results
                        /\ fpc' = "panicked"
              ELSE /\ results' = results
                   /\ fpc' = fpc
    /\ fcursor' = Tail(fcursor)
    /\ UNCHANGED <<svars, wvars, pending, spawns, calls, rvars, cvars, pvars, fret>>

\* lines 104-110: the cursor yields an error; it is counted and `?` returns it.
NextError ==
    /\ fpc = "L104"
    /\ counts' = [counts EXCEPT !.count = @ + 1]
    /\ fret' = Some(ErrFind)
    /\ fpc' = "done"
    /\ UNCHANGED <<svars, wvars, pending, spawns, calls, rvars, cvars, pvars,
                   fcursor, results>>

\* lines 104, 138: the cursor is exhausted; Ok(results).
CursorDone ==
    /\ fpc = "L104"
    /\ fcursor = <<>>
    /\ fret' = Some(OkResults(results))
    /\ fpc' = "done"
    /\ UNCHANGED <<svars, wvars, pending, spawns, calls, rvars, cvars, pvars,
                   fcursor, results, counts>>

\* The time of the call, in seconds since the epoch.
FingerprintNow == 1000000

\* The records of the servers collection: a record with the given fields
\* and those of `more`.
Seen(ip, port, seen, more) ==
    Extend([ip |-> Str(ip), port |-> Int32(port), lastSeen |-> Date(seen)], more)
Fingerprinted(t) == [fingerprintTimestamp |-> Date(t)]

\* Records seen just inside and on the edge of the two hours, fingerprinted
\* never, just over and exactly a week ago, and a minute ago; with and
\* without a protocol; and records without ip, with an ip that is no string
\* or no address, and without port.
FingerprintPool ==
    LET t == FingerprintNow
        hour2 == 60 * 60 * 2
        week == 60 * 60 * 24 * 7
    IN  {Seen("10.0.0.1", 25565, t - hour2 + 1, [protocol |-> Int32(765)]),
         Seen("10.0.0.1", 1, t - hour2, <<>>),
         Seen("10.0.0.2", 25565, t - 60, Fingerprinted(t - week - 1)),
         Seen("10.0.0.2", 1, t - 60, Fingerprinted(t - week)),
         Seen("10.0.0.2", 2, t - 60,
              Extend(Fingerprinted(t - 60), [protocol |-> Int32(765)])),
         Seen("10.0.0.1", 2, t - hour2 - 1, Fingerprinted(t - week - 1)),
         Seen("not an address", 25565, t - 60, <<>>),
         [port |-> Int32(25565), lastSeen |-> Date(t - 60)],
         [ip |-> Int32(167772161), port |-> Int32(25565), lastSeen |-> Date(t - 60)],
         [ip |-> Str("10.0.0.1"), lastSeen |-> Date(t - 60)],
         [ip |-> Str("10.0.0.2"), port |-> Int32(3), last_seen |-> Date(t - 60)]}

FingerprintStores == {S \in SUBSET FingerprintPool : Cardinality(S) <= MaxRecords}

FingerprintInit ==
    /\ WorkersIdle
    /\ store \in FingerprintStores
    /\ now = FingerprintNow
    /\ RescanIdle
    /\ OthersIdle

FingerprintNext ==
    \/ Find
    \/ FindFails
    \/ NextDoc
    \/ NextError
    \/ CursorDone

SpecFingerprint == FingerprintInit /\ [][FingerprintNext]_vars

(***************************************************************************)
(* From the scan to the rescan: the write requests process returns are     *)
(* flushed to the servers collection, time passes, and get_ranges selects  *)
(* the servers that are due.                                               *)
(***************************************************************************)
\* update_one(query, update) with the given upsert option, on a collection:
\* the fields of "$set" are merged into a document matching the query; when
\* there is none and upsert is set, a document of the query's equalities and
\* the fields of "$set" is inserted.
ApplyUpsert(coll, bulk) ==
    LET matches == {d \in coll : \A k \in DOMAIN bulk.query :
                                    k \in DOMAIN d /\ d[k] = bulk.query[k]}
        set == Unwrap(bulk.update.set)
    IN  IF matches # {}
        THEN LET d == CHOOSE m \in matches : TRUE
             IN  (coll \ {d}) \cup {Extend(d, set)}
        ELSE IF bulk.upsert
             THEN coll \cup {Extend(bulk.query, set)}
             ELSE coll

\* The seconds that pass between two looks at the clock, and how often they
\* pass.
TickSecs == 6
MaxTicks == 1

\* The responses of the scan: a server, and bytes that are not JSON.
PersistResponses ==
    {Text(PlainResponse), NotJson("")}

PersistStart(w) == ProcessStartWith(w, PersistResponses)

\* The scanner takes the write request process returned and the store
\* applies it; the frame of the call is gone.
Persist(w) ==
    /\ IsSome(data[w])
    /\ IsSome(out[w])
    /\ IsSome(Unwrap(out[w]))
    /\ store' = ApplyUpsert(store, Unwrap(Unwrap(out[w])))
    /\ data' = [data EXCEPT ![w] = None]
    /\ out' = [out EXCEPT ![w] = None]
    /\ UNCHANGED <<svars, wvars, pending, spawns, calls, now, rpc, args, filter,
                   local_bad_ips, pipeline, cursor, ip_str, ranges, rret, queried,
                   deleted, cvars, fvars>>

\* Time passes while get_ranges has not been called.
Tick ==
    /\ rpc = "idle"
    /\ now < 20 + TickSecs * MaxTicks
    /\ now' = now + TickSecs
    /\ UNCHANGED <<svars, wvars, pending, spawns, calls, store, rpc, args, filter,
                   local_bad_ips, pipeline, cursor, ip_str, ranges, rret, queried,
                   deleted, xvars>>

\* The scan starts at time 20 on an empty collection, or with a warm cache
\* on a collection that holds two servers of Addr1 seen earlier.
PersistInit ==
    \/ InitWith(<<>>)
    \/ /\ bad_ips = {}
       /\ ips_with_same_hash = ProcessWarmCache
       /\ lock = Free
       /\ pc = [w \in Workers |-> "idle"]
       /\ target = [w \in Workers |-> None]
       /\ listed = [w \in Workers |-> FALSE]
       /\ mongo_update = [w \in Workers |-> None]
       /\ this_server_hash = [w \in Workers |-> None]
       /\ is_bad_ip = [w \in Workers |-> FALSE]
       /\ ret = [w \in Workers |-> None]
       /\ pending = [ip \in Addrs |-> 0]
       /\ spawns = [ip \in Addrs |-> 0]
       /\ calls = 0
       /\ store = LockStore
       /\ now = 20
       /\ RescanIdle
       /\ OthersIdle

PersistNext ==
    \/ PersistStart(ScanWorker)
    \/ ProcessParse(ScanWorker)
    \/ CheckBlocklist(ScanWorker)
    \/ LockForCache(ScanWorker)
    \/ UpdateCache(ScanWorker)
    \/ Finish(ScanWorker)
    \/ ProcessReturn(ScanWorker)
    \/ \E ip \in Addrs : AddToBadIps(ip)
    \/ Persist(ScanWorker)
    \/ Tick
    \/ LockBuildQuery
    \/ Aggregate
    \/ AggregateFails
    \/ CursorDoc
    \/ CursorEnd
    \/ CursorError
    \/ DeleteMany
    \/ DeleteManyFails

SpecPersist == PersistInit /\ [][PersistNext]_vars

(***************************************************************************)
(* Properties.                                                             *)
(***************************************************************************)
\* The promotions signalled for `ip` so far: the spawns of add_to_bad_ips
\* done, and the calls that have set is_bad_ip and are about to spawn.
Signalled(ip) ==
    spawns[ip] + Cardinality({w \in Workers :
        pc[w] = "L349" /\ is_bad_ip[w] /\ Unwrap(target[w]).ip = ip})

Counting(ip) == ip \in DOMAIN ips_with_same_hash /\ IsSome(ips_with_same_hash[ip].count)
Disabled(ip) == ip \in DOMAIN ips_with_same_hash /\ ~IsSome(ips_with_same_hash[ip].count)

\* A 'bad ip {target:?}' error, the rejection of line 351.
IsPromotionError(r) == ~r.ok /\ Len(r.err) = 2 /\ r.err[1] = "bad ip"

\* C1: starting from an empty Repeat Cache and an empty blocklist, as long as
\* every record of an address had the same fingerprint (its count is active),
\* no promotion is signalled while fewer than 100 distinct ports have been
\* counted, exactly one has been signalled when the 100th distinct port has
\* been counted, and a 'bad ip {target}' rejection is returned only when 100
\* ports are counted.
C1_PromotedOnHundredthPort ==
    /\ \A ip \in Addrs :
          Counting(ip) =>
             /\ Cardinality(CheckedPorts(ip)) < 100 => Signalled(ip) = 0
             /\ Cardinality(CheckedPorts(ip)) = 100 => Signalled(ip) = 1
    /\ \A ip \in Addrs : ip \notin DOMAIN ips_with_same_hash => Signalled(ip) = 0
    /\ \A w \in Workers :
          (IsSome(ret[w]) /\ IsPromotionError(Unwrap(ret[w]))) =>
              Cardinality(CheckedPorts(Unwrap(ret[w]).err[2].ip)) >= 100

\* C1 witness: the 100th distinct port of an address has been counted, all
\* with one fingerprint, and add_to_bad_ips has been spawned for it.
C1_Witness ==
    \E ip \in Addrs :
        /\ Counting(ip)
        /\ Cardinality(CheckedPorts(ip)) = 100
        /\ spawns[ip] = 1
        /\ \E w \in Workers : IsSome(ret[w]) /\ IsPromotionError(Unwrap(ret[w]))

\* C2: a call for port 25565 of an address that line 287 found in bad_ips
\* never ends in a 'bad ip' error.
C2_DefaultPortNeverRejected ==
    \A w \in Workers :
        (pc[w] = "L349" /\ listed[w] /\ Unwrap(target[w]).port = DefaultPort)
            => ~is_bad_ip[w]

\* C5, the step: a record with another fingerprint on a port not yet counted
\* disables the count of an active entry and keeps the entry.
C5_DisablingStep ==
    \A w \in Workers :
        LET t == Unwrap(target[w])
            u == Unwrap(mongo_update[w])
            e == ips_with_same_hash[t.ip]
        IN  (/\ pc[w] = "L310_locked"
             /\ pc'[w] = "L349"
             /\ Counting(t.ip)
             /\ t.port \notin e.ports
             /\ <<Unwrap(u.set).description, Unwrap(u.set).version,
                  Unwrap(u.set).protocol, Unwrap(u.set).max_players>> # e.hash)
            => /\ t.ip \in DOMAIN ips_with_same_hash'
               /\ ips_with_same_hash'[t.ip].count = None
               /\ ips_with_same_hash'[t.ip].hash = e.hash
               /\ ips_with_same_hash'[t.ip].ports = e.ports

\* C5, afterwards: a disabled entry never changes again and no promotion is
\* signalled for its address from then on.
C5_DisabledForGood ==
    \A ip \in Addrs :
        Disabled(ip) =>
            /\ ip \in DOMAIN ips_with_same_hash'
            /\ ips_with_same_hash'[ip] = ips_with_same_hash[ip]
            /\ Signalled(ip)' = Signalled(ip)

\* C5: a record with a different fingerprint on a new port disables the
\* count for good and keeps the entry; an address whose count was disabled
\* before its 100th port (the differing 50th probe) is never promoted.
C5_MismatchDisablesForever ==
    /\ [](\A ip \in Addrs :
            (Disabled(ip) /\ Cardinality(CheckedPorts(ip)) < 100) => Signalled(ip) = 0)
    /\ [][C5_DisablingStep /\ C5_DisabledForGood]_vars

\* C5 witness: the count was disabled by the 50th probe (49 ports counted),
\* and a later probe of a further port has gone through the cache section
\* without computing a fingerprint.
C5_Witness ==
    \E ip \in Addrs :
        /\ Disabled(ip)
        /\ Cardinality(CheckedPorts(ip)) = 49
        /\ \E w \in Workers :
              /\ pc[w] = "L349"
              /\ Unwrap(target[w]).ip = ip
              /\ Unwrap(target[w]).port \notin CheckedPorts(ip)
              /\ this_server_hash[w] = None

SharedData == <<bad_ips, ips_with_same_hash>>

\* C3 as stated: from the blocklist check of line 287 to the cache update of
\* the same call, no step of anyone else changes bad_ips or
\* ips_with_same_hash.
C3_CheckAndUpdateAtomic ==
    [][\A w \in Workers :
          (pc[w] \in {"L310", "L310_locked"} /\ pc'[w] = pc[w])
              => SharedData' = SharedData]_vars

\* C3 as amended: the cache section of lines 310-347 is one atomic step
\* under one acquisition of the lock: at most one worker is inside it, and
\* from taking the lock at line 310 to the update no step of anyone else
\* changes bad_ips or ips_with_same_hash.
C3_CacheSectionAtomic ==
    /\ [](Cardinality({w \in Workers : pc[w] = "L310_locked"}) <= 1)
    /\ [][\A w \in Workers :
            (pc[w] = "L310_locked" /\ pc'[w] = pc[w])
                => SharedData' = SharedData]_vars

\* C3 witness: one worker is inside the cache section while another one,
\* with a record of the same address, waits for the lock at line 310.
C3_Witness ==
    \E w, v \in Workers :
        /\ w # v
        /\ pc[w] = "L310_locked"
        /\ pc[v] = "L310"
        /\ Unwrap(target[w]).ip = Unwrap(target[v]).ip

\* C6: the cache section of a record whose port is already among the
\* previously_checked_ports of its address leaves ips_with_same_hash as it
\* is and raises no flag.
C6_RepeatedPortChangesNothing ==
    [][\A w \in Workers :
          (/\ pc[w] = "L310_locked"
           /\ Unwrap(target[w]).port \in CheckedPorts(Unwrap(target[w]).ip))
              => /\ ips_with_same_hash' = ips_with_same_hash
                 /\ ~is_bad_ip'[w]]_vars

\* C6 witness: a repeated probe of a counted port has gone through the
\* cache section of an address whose count is active.
C6_Witness ==
    \E w \in Workers :
        /\ pc[w] = "L349"
        /\ Counting(Unwrap(target[w]).ip)
        /\ Unwrap(target[w]).port \in CheckedPorts(Unwrap(target[w]).ip)
        /\ this_server_hash[w] = None
        /\ Cardinality(CheckedPorts(Unwrap(target[w]).ip)) >= 2

\* C7: the step of line 287 for a target whose address is in bad_ips and
\* whose port is not 25565 ends the call with the 'bad ip' error and no
\* write request; no fingerprint was computed, the Repeat Cache is unchanged
\* and no promotion is flagged or spawned.
C7_BlockedRejectedAtOnce ==
    [][\A w \in Workers :
          (/\ pc[w] = "L287"
           /\ pc'[w] # "L287"
           /\ Unwrap(target[w]).ip \in bad_ips
           /\ Unwrap(target[w]).port # DefaultPort)
              => /\ pc'[w] = "idle"
                 /\ IsSome(ret'[w])
                 /\ ~Unwrap(ret'[w]).ok
                 /\ Unwrap(ret'[w]).err = <<"bad ip">>
                 /\ Unwrap(ret'[w]).bulk = None
                 /\ this_server_hash'[w] = None
                 /\ ~is_bad_ip'[w]
                 /\ ips_with_same_hash' = ips_with_same_hash
                 /\ spawns' = spawns
                 /\ pending' = pending]_vars

\* C7 witness: a call was rejected at line 289.
C7_Witness ==
    \E w \in Workers :
        /\ pc[w] = "idle"
        /\ IsSome(ret[w])
        /\ Unwrap(ret[w]).err = <<"bad ip">>

\* C4: the lock is not held by the worker that stands before the spawn of
\* add_to_bad_ips (line 349), nor by get_ranges where it starts the
\* aggregation (line 76) or delete_many (line 107); what get_ranges consults
\* at line 105 is its own copy of the blocklist.
C4_NoLockAcrossSuspension ==
    /\ \A w \in Workers : pc[w] = "L349" => lock # w
    /\ rpc \in {"L76", "L107"} => lock # Rescan

\* C4 witness: the worker stands before the spawn with is_bad_ip set while
\* get_ranges is about to call delete_many for an address of its copy.
C4_Witness ==
    /\ \E w \in Workers : pc[w] = "L349" /\ is_bad_ip[w]
    /\ rpc = "L107"
    /\ local_bad_ips # {}

\* The targets of the documents of DuePool with the three oldest lastSeen.
OldestThree ==
    <<ScanRange(Addr1, DefaultPort), ScanRange(Addr1, 1), ScanRange(Addr1, 2)>>

\* C8: a call with sort Oldest or none, limit 3, no other restriction and
\* nothing blocklisted, over the five due documents of DuePool, returns
\* the targets of the three oldest ones, oldest first.
C8_OldestThreeInOrder ==
    (/\ rpc = "done"
     /\ cursor = <<>>
     /\ queried = DuePool
     /\ Unwrap(args).sort # Some("Random")
     /\ Unwrap(args).limit = Some(3)
     /\ Unwrap(args).extra_filter = <<>>
     /\ Unwrap(args).players_online_ago_max_secs = None
     /\ bad_ips = {})
        => rret = Some(OkRanges(OldestThree))

\* C9: no range returned by get_ranges has an address that was in bad_ips
\* when the call started and a port other than 25565.
C9_NoBlocklistedTargetReturned ==
    (rpc = "done" /\ cursor = <<>> /\ IsSome(rret) /\ Unwrap(rret).ok)
        => \A i \in 1..Len(Unwrap(rret).ranges) :
              ~(/\ Unwrap(rret).ranges[i].ip \in bad_ips
                /\ Unwrap(rret).ranges[i].port # DefaultPort)

\* The document d is a stored record of the target r.
RecordOf(d, r) ==
    /\ "ip" \in DOMAIN d
    /\ d["ip"] = Str(IpToString(r.ip))
    /\ "port" \in DOMAIN d
    /\ d["port"] = Int32(r.port)

\* The document d has a date under `key` that is later than `after` and, when
\* `before` is given, earlier than it.
DateWithin(d, key, after, before) ==
    /\ key \in DOMAIN d
    /\ d[key][1] = "date"
    /\ d[key][2] > after
    /\ IsSome(before) => d[key][2] < Unwrap(before)

\* C10: with an empty extra filter every range collected by get_ranges is
\* the target of a queried record whose lastSeen lies strictly between
\* now - last_ping_ago_max_secs and now - rescan_every_secs and whose
\* lastActive, when players_online_ago_max_secs is given, is strictly after
\* now - players_online_ago_max_secs.
C10_ReturnedWithinWindows ==
    (IsSome(args) /\ Unwrap(args).extra_filter = <<>>)
        => \A i \in 1..Len(ranges) :
              \E d \in queried :
                 /\ RecordOf(d, ranges[i])
                 /\ DateWithin(d, "lastSeen",
                               now - Unwrap(args).last_ping_ago_max_secs,
                               Some(now - Unwrap(args).rescan_every_secs))
                 /\ IsSome(Unwrap(args).players_online_ago_max_secs)
                      => DateWithin(d, "lastActive",
                            now - Unwrap(Unwrap(args).players_online_ago_max_secs),
                            None)

\* C10 witness: a call with an empty extra filter and a player window has
\* returned a target although the collection also held a record whose
\* lastSeen is on the edge of the window and one whose players were online too
\* long ago.
C10_Witness ==
    /\ rpc = "done"
    /\ cursor = <<>>
    /\ Unwrap(args).extra_filter = <<>>
    /\ IsSome(Unwrap(args).players_online_ago_max_secs)
    /\ Len(ranges) >= 1
    /\ rret = Some(OkRanges(ranges))
    /\ \E d \in queried :
          /\ \A i \in 1..Len(ranges) : ~RecordOf(d, ranges[i])
          /\ "port" \in DOMAIN d
          /\ "lastSeen" \in DOMAIN d
          /\ \/ d["lastSeen"][2] = now - Unwrap(args).rescan_every_secs
             \/ d["lastSeen"][2] = now - Unwrap(args).last_ping_ago_max_secs
             \/ /\ "lastActive" \in DOMAIN d
                /\ d["lastActive"][2]
                     <= now - Unwrap(Unwrap(args).players_online_ago_max_secs)

(***************************************************************************)
(* The response in hand and the record made of it, read off the JSON.      *)
(***************************************************************************)
Accepted == IsSome(cleaned) /\ IsSome(Unwrap(cleaned))
Record == Unwrap(Unwrap(cleaned))

\* The entries of players.sample of the response ( <<>> when there are none).
SampleEntries ==
    LET r == Unwrap(response)
    IN  IF /\ r[1] = "object"
           /\ "players" \in DOMAIN r[2]
           /\ r[2]["players"][1] = "object"
           /\ "sample" \in DOMAIN r[2]["players"][2]
           /\ r[2]["players"][2]["sample"][1] = "array"
        THEN r[2]["players"][2]["sample"][2]
        ELSE <<>>
FirstEntries == SubSeq(SampleEntries, 1, Min(SampleTake, Len(SampleEntries)))

\* The id and the name of an entry, "" when it has none.
EntryId(e) ==
    IF "id" \in DOMAIN e[2] /\ e[2]["id"][1] = "string" THEN e[2]["id"][2] ELSE ""
EntryName(e) ==
    IF "name" \in DOMAIN e[2] /\ e[2]["name"][1] = "string" THEN e[2]["name"][2] ELSE ""

\* The identifier is 32 hexadecimal digits with the version nibble v.
HasVersion(id, v) ==
    LET u == WithoutDashes(Chars(id))
    IN  /\ Len(u) = 32
        /\ \A i \in 1..32 : u[i] \in HexDigits
        /\ u[13] = v

\* The entry is a player with an identifier of neither pattern and a name
\* other than 'Anonymous Player'.
Fabricated(e) ==
    /\ e[1] = "object"
    /\ ~HasVersion(EntryId(e), "3")
    /\ ~HasVersion(EntryId(e), "4")
    /\ EntryName(e) # ANONYMOUS_PLAYER_NAME

\* The entries are players, none of them fabricated, with a v4 and a v3
\* identifier among them.
MixedSample(entries) ==
    /\ \A i \in 1..Len(entries) : entries[i][1] = "object" /\ ~Fabricated(entries[i])
    /\ \E i \in 1..Len(entries) : HasVersion(EntryId(entries[i]), "4")
    /\ \E i \in 1..Len(entries) : HasVersion(EntryId(entries[i]), "3")

\* C11: every record clean_response_data returns carries the last-seen
\* stamp of the current time.
C11_LastSeenAlwaysStamped ==
    Accepted => \E k \in {"last_seen", "lastSeen"} :
                    k \in DOMAIN Record /\ Record[k] = Date(now)

\* C12: a response whose description does not deserialize as rich text
\* yields no record.
C12_UndeserializableDescriptionRejected ==
    (/\ IsSome(cleaned)
     /\ Unwrap(response)[1] = "object"
     /\ "description" \in DOMAIN Unwrap(response)[2]
     /\ ~FormattedTextDeserialize(Unwrap(response)[2]["description"]).ok)
        => Unwrap(cleaned) = None

\* C16 as stated: the record of a sample that is not fake and mixes v4 and
\* v3 identifiers has isCracked null.
C16_MixedStoredAsNull ==
    (Accepted /\ MixedSample(SampleEntries))
        => "isCracked" \in DOMAIN Record /\ Record["isCracked"] = BNull

\* C16 as amended: when the description is not the one of line 156 and the
\* first 100 entries of the sample are not fake and mix v4 and v3
\* identifiers, the record has isCracked null.
C16_MixedInFirstHundredStoredAsNull ==
    (/\ Accepted
     /\ Record["description"] # Str(PrivacyDescription)
     /\ MixedSample(FirstEntries))
        => "isCracked" \in DOMAIN Record /\ Record["isCracked"] = BNull

\* C16 witness: a record with isCracked null was made of a sample of more
\* than 100 entries whose first 100 mix v4 and v3 identifiers.
C16_Witness ==
    /\ Accepted
    /\ Record["description"] # Str(PrivacyDescription)
    /\ MixedSample(FirstEntries)
    /\ Len(SampleEntries) > SampleTake
    /\ Record["isCracked"] = BNull

\* The keys of a record that do not come from the players.
PlainKeys ==
    {"updated_at", "description", "version", "protocol", "max_players",
     "online_players", "last_seen"}
RequiredKeys ==
    {"description", "version", "protocol", "max_players", "online_players"}
Suppressed == RequiredKeys \subseteq DOMAIN Record /\ DOMAIN Record \subseteq PlainKeys

\* C17 as stated: the record of a response with a fabricated player among
\* the first 100 entries has no players.<id>, isCracked, lastActive or
\* lastEmpty key, and has the five plain fields.
C17_FakeSampleSuppressed ==
    (Accepted /\ \E i \in 1..Len(FirstEntries) : Fabricated(FirstEntries[i]))
        => Suppressed

\* C17 as amended: the same, when the description is not the one of line 156.
C17_FakeSampleSuppressedUnlessIgnored ==
    (/\ Accepted
     /\ Record["description"] # Str(PrivacyDescription)
     /\ \E i \in 1..Len(FirstEntries) : Fabricated(FirstEntries[i]))
        => Suppressed

\* C17 witness: a record was made of a sample of a fabricated player and a
\* genuine one.
C17_Witness ==
    /\ Accepted
    /\ Record["description"] # Str(PrivacyDescription)
    /\ \E i \in 1..Len(FirstEntries) : Fabricated(FirstEntries[i])
    /\ \E i \in 1..Len(FirstEntries) : HasVersion(EntryId(FirstEntries[i]), "4")
    /\ Suppressed

\* C20: add_to_bad_ips is spawned at most once for an address, whatever the
\* sequence of records and whether or not the spawned task has run.
C20_PromotionSignalledOnce == \A ip \in Addrs : spawns[ip] <= 1

\* C15: get_ranges does not panic, and a call that ended while the cursor
\* still had documents to yield (the store failed) returned an error.
C15_StoreFailureSurfaced ==
    /\ rpc # "panicked"
    /\ (rpc = "done" /\ cursor # <<>>) => ~Unwrap(rret).ok

\* The bytes are not the text of a JSON object with a description.
Unreadable(bytes) ==
    \/ bytes[1] # "text"
    \/ bytes[2][1] # "object"
    \/ "description" \notin DOMAIN bytes[2][2]

C18_WriteRequestRoundTrip ==
    \A w \in Workers :
        (IsSome(out[w]) /\ IsSome(Unwrap(out[w]))) =>
            LET b == Unwrap(Unwrap(out[w]))
                d == Unwrap(data[w])
                fields == Unwrap(clean_response_data(d.bytes[2], now))
                after == ApplyUpsert({}, b)
            IN  /\ DOMAIN b.query = {"ip", "port"}
                /\ b.query["ip"] = Str(IpToString(d.target.ip))
                /\ b.query["port"] = Int32(d.target.port)
                /\ b.upsert
                /\ b.update = [set |-> Some(fields)]
                /\ Cardinality(after) = 1
                /\ \A r \in after :
                      /\ DOMAIN r = DOMAIN fields \cup {"ip", "port"}
                      /\ r["ip"] = Str(IpToString(d.target.ip))
                      /\ r["port"] = Int32(d.target.port)
                      /\ \A k \in DOMAIN fields : r[k] = fields[k]

\* C18 witness: process has returned a write request for a server with
\* players.
C18_Witness ==
    \E w \in Workers :
        /\ IsSome(out[w])
        /\ IsSome(Unwrap(out[w]))
        /\ "lastActive" \in DOMAIN Unwrap(Unwrap(Unwrap(out[w])).update.set)

\* C14: get_addrs_and_protocol_versions does not panic, whatever the
\* records of the collection hold.
C14_NoRecordIsFatal == fpc # "panicked"

\* The record has a string ip that is an IPv4 address and a port.
WellFormed(d) ==
    /\ "ip" \in DOMAIN d
    /\ d["ip"][1] = "string"
    /\ \E a \in KnownAddrs : IpToString(a) = d["ip"][2]
    /\ "port" \in DOMAIN d
    /\ d["port"][1] = "int32"
    /\ d["port"][2] \in 0..65535

\* The record was seen less than two hours ago and was fingerprinted never
\* or more than a week ago.
Eligible(d) ==
    /\ "lastSeen" \in DOMAIN d
    /\ d["lastSeen"][1] = "date"
    /\ d["lastSeen"][2] > now - 2 * 3600
    /\ \/ "fingerprintTimestamp" \notin DOMAIN d
       \/ /\ d["fingerprintTimestamp"][1] = "date"
          /\ d["fingerprintTimestamp"][2] < now - 7 * 24 * 3600

\* The pair of a well-formed record: its address and port, and its protocol
\* or 47.
PairOf(d) ==
    [addr |-> [ip |-> CHOOSE a \in KnownAddrs : IpToString(a) = d["ip"][2],
               port |-> d["port"][2]],
     protocol |-> IF "protocol" \in DOMAIN d THEN d["protocol"][2] ELSE 47]

\* C19: a call that returns Ok returns one pair for each well-formed
\* eligible record of the collection, the pair of that record, and nothing
\* else.
C19_PairsOfEligibleRecords ==
    (fpc = "done" /\ Unwrap(fret).ok) =>
        LET r == Unwrap(fret).results
            due == {d \in store : WellFormed(d) /\ Eligible(d)}
        IN  /\ Len(r) = Cardinality(due)
            /\ {r[i] : i \in 1..Len(r)} = {PairOf(d) : d \in due}

\* C19 witness: a call over a collection with a well-formed record that is
\* not eligible has returned a pair with a stored protocol and a pair with
\* protocol 47.
C19_Witness ==
    /\ fpc = "done"
    /\ Unwrap(fret).ok
    /\ \E d \in store : WellFormed(d) /\ ~Eligible(d)
    /\ \E i, j \in 1..Len(Unwrap(fret).results) :
          /\ Unwrap(fret).results[i].protocol = 47
          /\ Unwrap(fret).results[j].protocol = 765

\* C21: under every interleaving of the workers, an entry of
\* ips_with_same_hash whose count is Some holds as its count the number of
\* ports in its port set, and that count is at least 1.
C21_CountIsNumberOfPorts ==
    \A ip \in DOMAIN ips_with_same_hash :
        IsSome(ips_with_same_hash[ip].count) =>
            /\ Unwrap(ips_with_same_hash[ip].count)
                  = Cardinality(ips_with_same_hash[ip].ports)
            /\ Unwrap(ips_with_same_hash[ip].count) >= 1

\* C21 witness: two workers have each counted a port of one address, neither
\* call has returned yet, and the count is still active.
C21_Witness ==
    \E w, v \in Workers :
        /\ w # v
        /\ pc[w] = "L349"
        /\ pc[v] = "L349"
        /\ Unwrap(target[w]).ip = Unwrap(target[v]).ip
        /\ Unwrap(target[w]).port # Unwrap(target[v]).port
        /\ Unwrap(target[w]).port \in CheckedPorts(Unwrap(target[w]).ip)
        /\ Unwrap(target[v]).port \in CheckedPorts(Unwrap(target[v]).ip)
        /\ IsSome(ips_with_same_hash[Unwrap(target[w]).ip].count)

\* C24: a worker holds the lock nowhere but inside the cache section, so it
\* holds it neither where it is about to lock (lines 287 and 310) nor after
\* the section or after the call, whichever way it left; and every call of
\* create_bulk_update that has started returns.
C24_EveryCallCompletes ==
    /\ [](\A w \in Workers : pc[w] # "L310_locked" => lock # w)
    /\ \A w \in Workers : (pc[w] # "idle") ~> (pc[w] = "idle")

\* C24 witness: a call has left the cache section by the early return of
\* determine_hash's `?`, and the other worker has taken the lock after it.
C24_Witness ==
    \E w, v \in Workers :
        /\ w # v
        /\ pc[w] = "idle"
        /\ ret[w] = Some(ErrNoSet)
        /\ pc[v] = "L310_locked"
        /\ lock = v

\* C23: whatever the extra filter, every target a call without limit returns
\* from an exhausted cursor is the target of a queried record that the call
\* with an empty extra filter would match: its lastSeen lies inside the
\* window, and so does its lastActive when a player window is given.
C23_ExtraFilterOnlyNarrows ==
    (/\ rpc = "done"
     /\ cursor = <<>>
     /\ Unwrap(rret).ok
     /\ Unwrap(args).limit = None)
        => \A i \in 1..Len(Unwrap(rret).ranges) :
              \E d \in queried :
                 /\ RecordOf(d, Unwrap(rret).ranges[i])
                 /\ Matches(d, BuildFilter([Unwrap(args) EXCEPT !.extra_filter = <<>>], now))


\* The last time the store was told the server answered: the stamp process
\* wrote into the record.
StampOf(d) ==
    IF "last_seen" \in DOMAIN d /\ d["last_seen"][1] = "date"
    THEN Some(d["last_seen"][2])
    ELSE None

\* A record the scan accepted is due at `n` for arguments A: its stamp is
\* inside the window and its address is not on the blocklist.
DueAt(d, A, n) ==
    /\ "ip" \in DOMAIN d /\ "port" \in DOMAIN d
    /\ IsSome(StampOf(d))
    /\ Unwrap(StampOf(d)) + A.rescan_every_secs < n
    /\ n < Unwrap(StampOf(d)) + A.last_ping_ago_max_secs
    /\ IsSome(get_str(d, "ip"))
    /\ \A a \in bad_ips : IpToString(a) # Unwrap(get_str(d, "ip"))

\* C22: a server whose response was accepted and persisted, and whose last
\* seen time has since come inside the rescan window, is among the targets
\* a completed, successful, unlimited get_ranges returns.
C22_AcceptedBecomesDue ==
    (/\ rpc = "done" /\ cursor = <<>> /\ IsSome(rret) /\ Unwrap(rret).ok
     /\ Unwrap(args).limit = None)
        => \A d \in queried :
              DueAt(d, Unwrap(args), now)
                 => \E i \in 1..Len(Unwrap(rret).ranges) :
                       RecordOf(d, Unwrap(rret).ranges[i])

====
